---------------------------- MODULE Spec2Model ----------------------------
(***************************************************************************)
(* A model of the tide-gauge alignment pipeline of the sea-level notebook  *)
(* notebooks/analysis/satellite/get-data.ipynb: the fractional-year        *)
(* decoder year2date, the nearest-gridpoint lookup find_closest and the    *)
(* station/wind alignment get_data (sentinel handling, datum correction,   *)
(* projection on the shore angle, left join, imputation of missing wind),  *)
(* the datum correction get_rlr2nap, the wind series make_wind_df, the     *)
(* regression linear_model, and two calls of get_data on one wind series.  *)
(*                                                                         *)
(* Numbers.  Every float of the program is modelled by an exact rational   *)
(* <<n, d>> with d > 0 in lowest terms; NaN is <<0, 0>>.  A year fraction  *)
(* is an integer count of 1/(12*Sub) years, so that the month boundaries   *)
(* k/12 and the points between them are represented exactly.               *)
(***************************************************************************)
EXTENDS Integers, Sequences, FiniteSets, TLC

VARIABLES
    \* ---- year2date called on its own
    year_fraction,   \* the argument of year2date: a sequence of year fractions
    datetime64s,     \* its outcome [ok, dates, error]; error "not called" before
    \* ---- find_closest called on its own
    lat, lon,        \* the grid axes
    lat_i, lon_i,    \* the target coordinate
    ij,              \* the returned cell <<i, j>> (0-based), or <<>> before the call
    ij_again,        \* the cell returned for the coordinates of ij, or <<>>
    \* ---- get_data
    dataset,         \* "rlr_monthly" | "rlr_annual" | "met_monthly"
    station,         \* the station record [id, name]
    zf,              \* the archive: [data |-> raw rows, rlr_info |-> text]
    wind_df,         \* the wind series [none, rows]; none is TRUE for None
    alphas,          \* the global dictionary of shore angles, by station name
    df,              \* the station frame being built
    merged,          \* the merged frame
    pc,              \* the position of get_data
    error,           \* the exception that ended get_data, or "none"
    \* ---- get_rlr2nap called on its own
    info_text,       \* the text of RLR_info/<id>.txt
    rlr2nap_out,     \* its outcome [ok, correction, error]
    \* ---- linear_model
    lm_df,           \* the frame given to linear_model called on its own
    fit,             \* its outcome [called, ok, error, names, X, used, ...]
    \* ---- make_wind_df
    ds_u, ds_v,      \* the axes [lat, lon, time] of the u and the v file
    mw_target,       \* the arguments <<lat_i, lon_i>>
    mw_ij,           \* the cell find_closest returned, or <<>>
    mw_df,           \* the wind series returned, or <<>>
    mw_pc,           \* the position of make_wind_df
    mw_error,        \* the exception that ended make_wind_df, or "none"
    \* ---- two calls of get_data on one wind series
    procs,           \* per call: [station, zf, df, merged, pc, error]
    \* ---- get_stations
    filelist,        \* the rows [id, name, coastline_code] of filelist.txt
    gs_args,         \* the arguments [coastline_code, names]
    selected_stations, \* the rows returned, or NotSelected before the call
    \* ---- car2nau called on its own
    carthesian_deg,  \* the argument: a direction in degrees
    nautical_deg,    \* the outcome [called, value]
    \* ---- the argument alpha of get_data
    alpha_passed     \* the dictionary the caller passed, or None

y2d_vars == <<year_fraction, datetime64s>>
fc_vars  == <<lat, lon, lat_i, lon_i, ij, ij_again>>
gd_vars  == <<dataset, station, zf, wind_df, alphas, df, merged, pc, error>>
rlr_vars == <<info_text, rlr2nap_out>>
lm_vars  == <<lm_df, fit>>
mw_vars  == <<ds_u, ds_v, mw_target, mw_ij, mw_df, mw_pc, mw_error>>
gs_vars  == <<filelist, gs_args, selected_stations>>
c2n_vars == <<carthesian_deg, nautical_deg>>
arg_vars == <<alpha_passed>>
ext_vars == <<rlr_vars, lm_vars, mw_vars, procs, gs_vars, c2n_vars, arg_vars>>
vars     == <<y2d_vars, fc_vars, gd_vars, ext_vars>>

-----------------------------------------------------------------------------
(* Bounds of the model *)

\* subdivisions of a month in the representation of a year fraction
Sub == 2
\* longest argument of year2date when called on its own
MaxLen == 2
\* the years of the inputs
FirstYear == 1930
Years == {FirstYear, FirstYear + 1}

(* Program constants *)

\* np.linspace(0, 1, num=12, endpoint=False)
NumMonths == 12
\* missing2nan(value, missing=-99999)
Missing == -99999

-----------------------------------------------------------------------------
(* Exact rationals for the program's floats *)

NaN == <<0, 0>>
isnan(x) == x[2] = 0

Abs(n) == IF n < 0 THEN -n ELSE n

RECURSIVE GCD(_, _)
GCD(a, b) == IF b = 0 THEN a ELSE GCD(b, a % b)

Rat(n, d) ==
    IF d = 0 THEN NaN
    ELSE LET g == GCD(Abs(n), Abs(d))
             s == IF d < 0 THEN -1 ELSE 1
         IN  <<(s * n) \div g, (s * d) \div g>>

\* float(value) of an integer literal
float(n) == <<n, 1>>

\* float arithmetic: NaN is absorbing
RAdd(x, y) == IF isnan(x) \/ isnan(y) THEN NaN
              ELSE Rat(x[1] * y[2] + y[1] * x[2], x[2] * y[2])
RSub(x, y) == IF isnan(x) \/ isnan(y) THEN NaN
              ELSE Rat(x[1] * y[2] - y[1] * x[2], x[2] * y[2])
RMul(x, y) == IF isnan(x) \/ isnan(y) THEN NaN
              ELSE Rat(x[1] * y[1], x[2] * y[2])
RDiv(x, k) == IF isnan(x) THEN NaN ELSE Rat(x[1], x[2] * k)

\* x < y on floats that are not NaN
RLess(x, y) == x[1] * y[2] < y[1] * x[2]

\* Rounding of a real to the nearest float, ties to even.  The program's
\* floats have a significand of 53 bits; the model keeps Mantissa bits, so
\* that the values between which rounding happens stay small.
Mantissa == 12

RECURSIVE Pow2(_)
Pow2(k) == IF k = 0 THEN 1 ELSE 2 * Pow2(k - 1)

\* q * 2^e with q brought between 2^(Mantissa - 1) and 2^Mantissa
RECURSIVE normal(_, _)
normal(q, e) ==
    IF ~RLess(q, float(Pow2(Mantissa))) THEN normal(RDiv(q, 2), e + 1)
    ELSE IF RLess(q, float(Pow2(Mantissa - 1)))
         THEN normal(RMul(q, float(2)), e - 1)
         ELSE [q |-> q, e |-> e]

fl(x) ==
    IF isnan(x) \/ x[1] = 0 THEN x
    ELSE LET n == normal(<<Abs(x[1]), x[2]>>, 0)
             lo == n.q[1] \div n.q[2]
             twice == 2 * (n.q[1] % n.q[2])
             m == IF twice < n.q[2] THEN lo
                  ELSE IF twice > n.q[2] THEN lo + 1
                  ELSE IF lo % 2 = 0 THEN lo ELSE lo + 1
             sign == IF x[1] < 0 THEN -1 ELSE 1
         IN  IF n.e >= 0 THEN float(sign * m * Pow2(n.e))
             ELSE Rat(sign * m, Pow2(-n.e))

RECURSIVE SeqSum(_)
SeqSum(s) == IF s = <<>> THEN float(0) ELSE RAdd(Head(s), SeqSum(Tail(s)))

\* the subsequence of the elements of s that satisfy Test
SelectNotNan(s) == SelectSeq(s, LAMBDA x : ~isnan(x))

\* np.mean of a column: NaN as soon as one value is NaN, NaN for no value
mean(s) == IF s = <<>> THEN NaN ELSE RDiv(SeqSum(s), Len(s))

\* np.nanmean of a column: the mean of the values that are not NaN,
\* NaN (with a warning) when there is none
nanmean(s) == mean(SelectNotNan(s))

\* all sequences over S of length lo..hi
SeqsOf(S, lo, hi) == UNION {[1..n -> S] : n \in lo..hi}

-----------------------------------------------------------------------------
(* year2date *)

\* a year fraction y is the integer y: Y + f is (12*Sub)*Y + (12*Sub)*f
Unit == NumMonths * Sub
YearFraction(year, part) == year * Unit + part

\* startpoints = np.linspace(0, 1, num=12, endpoint=False), in the same unit
startpoints == [k \in 1..NumMonths |-> (k - 1) * Sub]

\* np.mod(year_fraction, 1)
remainder(y) == y % Unit
\* np.floor_divide(year_fraction, 1).astype('int')
floor_year(y) == y \div Unit

\* np.searchsorted(a, v) with the default side='left': the number of
\* elements of the sorted a that are strictly smaller than v
searchsorted_right(a, v) == Cardinality({k \in DOMAIN a : a[k] <= v})
searchsorted(a, v) == Cardinality({k \in DOMAIN a : a[k] < v})

\* datetime.datetime(year, month, 1) raises ValueError outside these ranges
ValidDate_no_first_year(y, m) == y <= 9999 /\ m \in 1..12
ValidDate(y, m) == y \in 1..9999 /\ m \in 1..12

\* a NaN in the year column: a value apart from every year fraction
NanYear == -(1000000 * Unit)
year_isnan(y) == y = NanYear

month_raw(ys) == [k \in DOMAIN ys |-> searchsorted(startpoints, remainder(ys[k]))]

\* if (month == 0).all(): month = np.ones_like(month)
month_no_january_rule(ys) == month_raw(ys)
month_of(ys) ==
    LET month == month_raw(ys)
    IN  IF \A k \in DOMAIN month : month[k] = 0
        THEN [k \in DOMAIN month |-> 1]
        ELSE month

\* year_fraction is the pandas Series df.year (line 366), on which
\* np.floor_divide gives a Series and .astype('int') raises ValueError when
\* a value is NaN
year2date(ys) ==
    LET year  == [k \in DOMAIN ys |-> floor_year(ys[k])]
        month == month_of(ys)
    IN  IF \E k \in DOMAIN ys : year_isnan(ys[k])
        THEN [ok |-> FALSE, dates |-> <<>>, error |-> "ValueError"]
        ELSE IF \A k \in DOMAIN ys : ValidDate(year[k], month[k])
        THEN [ok |-> TRUE,
              dates |-> [k \in DOMAIN ys |->
                           [year |-> year[k], month |-> month[k], day |-> 1]],
              error |-> "none"]
        ELSE [ok |-> FALSE, dates |-> <<>>, error |-> "ValueError"]

NotCalled == [ok |-> FALSE, dates |-> <<>>, error |-> "not called"]

-----------------------------------------------------------------------------
(* The values the variables of a function hold while another one runs *)

IdleY2D == year_fraction = <<>> /\ datetime64s = NotCalled
IdleFC  == /\ lat = <<>> /\ lon = <<>> /\ lat_i = 0 /\ lon_i = 0
           /\ ij = <<>> /\ ij_again = <<>>
IdleGD  == /\ dataset = "none"
           /\ station = [id |-> 0, name |-> "none"]
           /\ zf = [data |-> <<>>, rlr_info |-> <<>>]
           /\ wind_df = [none |-> TRUE, rows |-> <<>>]
           /\ alphas = <<>> /\ df = <<>> /\ merged = <<>> /\ pc = "idle"
           /\ error = "none"
NoCorrection == [ok |-> FALSE, correction |-> NaN, error |-> "not called"]
IdleRLR == info_text = <<>> /\ rlr2nap_out = NoCorrection
NoFit == [called |-> FALSE, ok |-> FALSE, error |-> "not called",
          with_wind |-> FALSE, with_season |-> FALSE,
          names |-> <<>>, X |-> <<>>, used |-> <<>>]
IdleLM == lm_df = <<>> /\ fit = NoFit
NoAxes == [lat |-> <<>>, lon |-> <<>>, time |-> <<>>]
IdleMW == /\ ds_u = NoAxes /\ ds_v = NoAxes /\ mw_target = <<0, 0>>
          /\ mw_ij = <<>> /\ mw_df = <<>> /\ mw_pc = "idle" /\ mw_error = "none"
IdlePar == procs = <<>>
NoNames == [none |-> TRUE, list |-> <<>>]
NotSelected == [called |-> FALSE, rows |-> <<>>]
IdleGS == /\ filelist = <<>>
          /\ gs_args = [coastline_code |-> 0, names |-> NoNames]
          /\ selected_stations = NotSelected
NoBearing == [called |-> FALSE, value |-> NaN]
IdleC2N == carthesian_deg = NaN /\ nautical_deg = NoBearing
\* None, as the value of an argument
None == <<>>
\* a global name that no cell has defined
Undefined == <<>>
IdleArg == alpha_passed = None
IdleExt == IdleRLR /\ IdleLM /\ IdleMW /\ IdlePar /\ IdleGS /\ IdleC2N /\ IdleArg

-----------------------------------------------------------------------------
(* Specification SpecY2D: year2date applied to every bounded argument *)

\* the year fractions of the arguments: every multiple of 1/(12*Sub) of the years
YearFractions == {YearFraction(y, p) : y \in Years, p \in 0..(Unit - 1)}

InitY2D ==
    /\ year_fraction \in SeqsOf(YearFractions, 0, MaxLen)
    /\ datetime64s = NotCalled
    /\ IdleFC
    /\ IdleGD
    /\ IdleExt

CallYear2date ==
    /\ datetime64s = NotCalled
    /\ datetime64s' = year2date(year_fraction)
    /\ UNCHANGED <<year_fraction, fc_vars, gd_vars, ext_vars>>

NextY2D == CallYear2date

SpecY2D == InitY2D /\ [][NextY2D]_vars

Called == datetime64s # NotCalled

\* the month whose start is the last boundary k/12 that is <= the fraction part
LastBoundaryMonth(part) ==
    CHOOSE m \in 1..NumMonths :
        /\ startpoints[m] <= part
        /\ \A n \in 1..NumMonths : startpoints[n] <= part => n <= m

\* C1: every decoded timestamp has the month that starts at the last boundary
\* k/12 <= the fraction part; a fraction on the boundary k/12 gets month k+1.
C1_MonthOfLastBoundary ==
    datetime64s.ok =>
        \A k \in DOMAIN year_fraction :
            datetime64s.dates[k].month = LastBoundaryMonth(remainder(year_fraction[k]))

\* C2: year2date returns one timestamp per input, in order, each on day 1,
\* in a month 1..12 and in the year that is the integer part of the input,
\* for every argument, mixed ones included (no error, no month 0).
C2_OneTimestampPerInput ==
    Called =>
        /\ datetime64s.ok
        /\ Len(datetime64s.dates) = Len(year_fraction)
        /\ \A k \in DOMAIN year_fraction :
              /\ datetime64s.dates[k].day = 1
              /\ datetime64s.dates[k].month \in 1..12
              /\ datetime64s.dates[k].year = floor_year(year_fraction[k])

AllAnnual == \A k \in DOMAIN year_fraction : remainder(year_fraction[k]) = 0

\* C3: when every fraction part is 0 (annual data), every timestamp is
\* 1 January of the input's year, and the call does not fail on a month 0.
C3_AnnualIsJanuary ==
    (Called /\ AllAnnual) =>
        /\ datetime64s.ok
        /\ DOMAIN datetime64s.dates = DOMAIN year_fraction
        /\ \A k \in DOMAIN year_fraction :
              datetime64s.dates[k] =
                  [year |-> floor_year(year_fraction[k]), month |-> 1, day |-> 1]

\* an annual series of two different years has been decoded
C3_Witness ==
    /\ Called /\ AllAnnual /\ datetime64s.ok
    /\ Len(year_fraction) >= 2
    /\ year_fraction[1] # year_fraction[2]
    /\ datetime64s.dates[2].month = 1

\* C4: the start (m-1)/12 of the decoded month m is less than one month
\* away from the fraction part, and the decoded year is the integer part.
C4_RoundTripWithinAMonth ==
    datetime64s.ok =>
        \A k \in DOMAIN year_fraction :
            /\ Abs(startpoints[datetime64s.dates[k].month]
                     - remainder(year_fraction[k])) < Sub
            /\ datetime64s.dates[k].year = floor_year(year_fraction[k])

-----------------------------------------------------------------------------
(* find_closest *)

\* the coordinates of the grid axes and of the targets
Coords == {0, 1, 2}
\* longest grid axis
MaxAxis == 2

\* np.meshgrid(lon, lat): Lat[i, j] = lat[i] and Lon[i, j] = lon[j], raveled
\* row by row: flat index idx is cell (idx div len(lon), idx mod len(lon)).
\* (Lat - lat_i)**2 + (Lon - lon_i)**2 at flat index idx (0-based)
distance2(la, lo, la_i, lo_i, idx) ==
    LET i == idx \div Len(lo)
        j == idx % Len(lo)
    IN  (la[i + 1] - la_i) * (la[i + 1] - la_i)
        + (lo[j + 1] - lo_i) * (lo[j + 1] - lo_i)

\* np.argmin of the flat array d[0..n-1]: the first index of the minimum
argmin_last(d, n) ==
    CHOOSE idx \in 0..(n - 1) :
        \A k \in 0..(n - 1) : d[k] >= d[idx] /\ (k > idx => d[k] > d[idx])
argmin(d, n) ==
    CHOOSE idx \in 0..(n - 1) :
        \A k \in 0..(n - 1) : d[k] >= d[idx] /\ (k < idx => d[k] > d[idx])

\* np.unravel_index(idx, (nrows, ncols)) in C order
unravel_index_colmajor(idx, nrows, ncols) == <<idx % nrows, idx \div nrows>>
unravel_index(idx, nrows, ncols) == <<idx \div ncols, idx % ncols>>

find_closest(la, lo, la_i, lo_i) ==
    LET n   == Len(la) * Len(lo)
        d   == [idx \in 0..(n - 1) |-> distance2(la, lo, la_i, lo_i, idx)]
        idx == argmin(d, n)
    IN  unravel_index(idx, Len(la), Len(lo))

-----------------------------------------------------------------------------
(* Specification SpecFC: find_closest on every bounded grid and target *)

InitFC ==
    /\ lat \in SeqsOf(Coords, 1, MaxAxis)
    /\ lon \in SeqsOf(Coords, 1, MaxAxis)
    /\ lat_i \in Coords
    /\ lon_i \in Coords
    /\ ij = <<>>
    /\ ij_again = <<>>
    /\ IdleY2D
    /\ IdleGD
    /\ IdleExt

\* i, j = find_closest(lat, lon)
CallFindClosest ==
    /\ ij = <<>>
    /\ ij' = find_closest(lat, lon, lat_i, lon_i)
    /\ UNCHANGED <<lat, lon, lat_i, lon_i, ij_again, y2d_vars, gd_vars, ext_vars>>

\* find_closest(lat, lon, lat[i], lon[j]): the lookup of the returned cell
LookupReturnedCell ==
    /\ ij # <<>>
    /\ ij_again = <<>>
    /\ ij_again' = find_closest(lat, lon, lat[ij[1] + 1], lon[ij[2] + 1])
    /\ UNCHANGED <<lat, lon, lat_i, lon_i, ij, y2d_vars, gd_vars, ext_vars>>

NextFC == CallFindClosest \/ LookupReturnedCell

SpecFC == InitFC /\ [][NextFC]_vars

\* squared distance of cell (a, b) (0-based) to the target
CellDistance2(a, b) ==
    (lat[a + 1] - lat_i) * (lat[a + 1] - lat_i)
    + (lon[b + 1] - lon_i) * (lon[b + 1] - lon_i)

Cells == (0..(Len(lat) - 1)) \X (0..(Len(lon) - 1))

\* C5: the returned (i, j) indexes latitude then longitude, minimises the
\* squared distance over the whole cross product, and is the first minimal
\* cell in row-major order.
C5_ClosestFirstRowMajor ==
    ij # <<>> =>
        /\ ij \in Cells
        /\ \A c \in Cells :
              /\ CellDistance2(c[1], c[2]) >= CellDistance2(ij[1], ij[2])
              /\ CellDistance2(c[1], c[2]) = CellDistance2(ij[1], ij[2])
                    => (c[1] > ij[1] \/ (c[1] = ij[1] /\ c[2] >= ij[2]))

\* a lookup on a 2 x 2 grid in which another cell ties with the returned one
C5_Witness ==
    /\ ij # <<>>
    /\ Len(lat) >= 2 /\ Len(lon) >= 2
    /\ \E c \in Cells :
          /\ c # ij
          /\ lat[c[1] + 1] # lat[ij[1] + 1]
          /\ CellDistance2(c[1], c[2]) = CellDistance2(ij[1], ij[2])

\* C6: looking up the coordinates of the returned cell returns that cell.
C6_Idempotent == ij_again # <<>> => ij_again = ij

\* the second lookup has run on a grid with a repeated latitude and a
\* repeated longitude, for a target that is not a grid point
C6_Witness ==
    /\ ij_again # <<>>
    /\ \E a, b \in DOMAIN lat : a # b /\ lat[a] = lat[b]
    /\ \E a, b \in DOMAIN lon : a # b /\ lon[a] = lon[b]
    /\ lat[ij[1] + 1] # lat_i

-----------------------------------------------------------------------------
(* make_wind_df: the columns of the wind series *)

\* most station rows / most timestamps of the wind series
MaxRows == 2
NWind == 3

\* the timestamps of the wind grid's time axis: first days of months
WindTime(k) ==
    [year |-> FirstYear + ((k - 1) \div 2), month |-> 1 + ((k - 1) % 2), day |-> 1]

\* the (u, v) samples: along an axis, so that speed and direction are exact
WindVectors == {<<3, 0>>, <<0, -2>>}

\* np.sqrt(u ** 2 + v ** 2), for a vector along an axis
speed_of(u, v) == Abs(u) + Abs(v)

\* np.mod(np.angle(u + v * 1j), 2*np.pi), held as the number of degrees q
\* of the angle q * pi / 180, for a vector along an axis
direction_of(u, v) ==
    CASE u >= 0 /\ v = 0 -> 0
      [] u = 0 /\ v > 0  -> 90
      [] u < 0 /\ v = 0  -> 180
      [] u = 0 /\ v < 0  -> 270

\* one row of wind_df as make_wind_df returns it; u2main and u2perp are NaN
\* until get_data writes them
wind_row(t, u, v) ==
    [t |-> t, u |-> float(u), v |-> float(v),
     speed |-> float(speed_of(u, v)), direction |-> float(direction_of(u, v)),
     u2 |-> float(u * u), v2 |-> float(v * v),
     u2main |-> NaN, u2perp |-> NaN]

WindColumns == {"u", "v", "speed", "direction", "u2", "v2", "u2main", "u2perp"}

\* the column col of a frame
Column(frame, col) == [k \in DOMAIN frame |-> frame[k][col]]

-----------------------------------------------------------------------------
(* get_data and its helpers *)

\* missing2nan: nan if float(value) equals the missing value
missing2nan(value) == IF float(value) = float(Missing) THEN NaN ELSE float(value)

\* get_rlr2nap.  The text of RLR_info/<id>.txt is a sequence of lines, and a
\* line is the sequence of the values (in metres) of its sentences
\* 'Add <value> to data <from> onwards', in order; its other words are left
\* out.
\*
\* re.findall('Add (.+) to data .+ onwards', text), each match reduced by
\* .split()[-1].replace('m', '') and float: '.' does not match a newline and
\* (.+) is greedy, so a line with sentences gives one match, whose group
\* runs from the first 'Add ' to the last ' to data ' of the line, and the
\* last word of that group is the value of the last sentence of the line.
findall_values(text) ==
    LET lines == SelectSeq(text, LAMBDA line : line # <<>>)
    IN  [k \in DOMAIN lines |-> lines[k][Len(lines[k])]]

\* float(re.findall(...)[-1]...) * 1000: the last match, in millimetres
rlr2nap_correction_first(info) == RMul(findall_values(info)[1], float(1000))
rlr2nap_correction(info) ==
    LET values == findall_values(info)
    IN  RMul(values[Len(values)], float(1000))

\* the function get_rlr2nap returns: lambda x: x - correction
rlr2nap(correction, x) == RSub(x, correction)

\* get_rlr2nap(zf, station, dataset): [-1] of an empty list of matches
\* raises IndexError, and no function is returned
get_rlr2nap_zero_default(info) ==
    [ok |-> TRUE,
     correction |-> IF findall_values(info) = <<>> THEN float(0)
                    ELSE rlr2nap_correction(info),
     error |-> "none"]
get_rlr2nap(info) ==
    IF findall_values(info) = <<>>
    THEN [ok |-> FALSE, correction |-> NaN, error |-> "IndexError"]
    ELSE [ok |-> TRUE, correction |-> rlr2nap_correction(info), error |-> "none"]

typetag(ds) == IF ds \in {"rlr_monthly", "rlr_annual"} THEN "rlr" ELSE "met"

\* the height converter of read_csv: rlr2nap(missing2nan(x)) for rlr data,
\* pandas' own number parsing otherwise
parse_height(ds, info, x) ==
    IF typetag(ds) = "rlr"
    THEN rlr2nap(get_rlr2nap(info).correction, missing2nan(x))
    ELSE float(x)

\* str.lower of a station name
lower(name) ==
    CASE name \in {"VLISSINGEN", "Vlissingen", "vlissingen"} -> "vlissingen"
      [] name \in {"DELFZIJL", "Delfzijl", "delfzijl"}       -> "delfzijl"

\* the real number x mod 360, in [0, 360)
mod360(x) == IF isnan(x) THEN NaN ELSE Rat(x[1] % (360 * x[2]), x[2])

\* x % 360 on floats: the remainder with the sign of x is exact; a negative
\* one has 360 added to it, and that sum is rounded
float_mod360(x) ==
    IF isnan(x) THEN NaN
    ELSE LET r == RSub(mod360(x), IF x[1] < 0 /\ mod360(x)[1] # 0
                                    THEN float(360) ELSE float(0))
         IN  IF r[1] < 0 THEN fl(RAdd(r, float(360))) ELSE r

\* car2nau: ((carthesian * -1) + 90) % 360
car2nau(carthesian) ==
    float_mod360(fl(RAdd(RMul(carthesian, float(-1)), float(90))))

\* np.cos and np.sin of np.pi / 180 * x, for x a multiple of 90 degrees
cos_deg(x) ==
    LET q == mod360(x)
    IN  CASE q = float(0) -> float(1)
          [] q = float(90) -> float(0)
          [] q = float(180) -> float(-1)
          [] q = float(270) -> float(0)
sin_deg(x) ==
    LET q == mod360(x)
    IN  CASE q = float(0) -> float(0)
          [] q = float(90) -> float(1)
          [] q = float(180) -> float(0)
          [] q = float(270) -> float(-1)

project_once(rows, alpha) ==
    [k \in DOMAIN rows |->
        LET dir_car_deg == rows[k].direction
            dir_nau_deg == car2nau(dir_car_deg)
            speed2      == RMul(rows[k].speed, rows[k].speed)
            angle       == RSub(dir_nau_deg, float(alpha))
        IN  IF ~isnan(rows[k].u2main) THEN rows[k]
            ELSE [rows[k] EXCEPT !.u2main = RMul(speed2, cos_deg(angle)),
                                 !.u2perp = RMul(speed2, sin_deg(angle))]]

\* wind_df['u2main'] = speed**2 * cos(pi/180 * (dir_nau_deg - alpha)), and
\* wind_df['u2perp'] with sin: the two columns written into wind_df
project(rows, alpha) ==
    [k \in DOMAIN rows |->
        LET dir_car_deg == rows[k].direction
            dir_nau_deg == car2nau(dir_car_deg)
            speed2      == RMul(rows[k].speed, rows[k].speed)
            angle       == RSub(dir_nau_deg, float(alpha))
        IN  [rows[k] EXCEPT !.u2main = RMul(speed2, cos_deg(angle)),
                            !.u2perp = RMul(speed2, sin_deg(angle))]]

\* wind_df.resample('A', label='left', loffset=timedelta(days=1)).mean():
\* one row per calendar year from the first to the last year of the series,
\* labelled 1 January of that year, each column the mean of the year's
\* samples that are not NaN (NaN for a year without sample)
YearsOf(rows) == {rows[k].t.year : k \in DOMAIN rows}
MinOf(S) == CHOOSE x \in S : \A y \in S : x <= y
MaxOf(S) == CHOOSE x \in S : \A y \in S : x >= y
resample_annual_right(rows) ==
    IF rows = <<>> THEN <<>>
    ELSE LET first == MinOf(YearsOf(rows))
             last  == MaxOf(YearsOf(rows))
         IN  [n \in 1..(last - first + 1) |->
                LET y   == first + n - 1
                    grp == SelectSeq(rows, LAMBDA r : r.t.year = y)
                IN  [c \in WindColumns \cup {"t"} |->
                        IF c = "t" THEN [year |-> y + 1, month |-> 1, day |-> 1]
                        ELSE nanmean(Column(grp, c))]]
resample_annual(rows) ==
    IF rows = <<>> THEN <<>>
    ELSE LET first == MinOf(YearsOf(rows))
             last  == MaxOf(YearsOf(rows))
         IN  [n \in 1..(last - first + 1) |->
                LET y   == first + n - 1
                    grp == SelectSeq(rows, LAMBDA r : r.t.year = y)
                IN  [c \in WindColumns \cup {"t"} |->
                        IF c = "t" THEN [year |-> y, month |-> 1, day |-> 1]
                        ELSE nanmean(Column(grp, c))]]

\* a station row joined with a wind row, and with no wind row
with_wind(r, w) ==
    [t |-> r.t, year |-> r.year, height |-> r.height, station |-> r.station,
     u |-> w.u, v |-> w.v, speed |-> w.speed, direction |-> w.direction,
     u2 |-> w.u2, v2 |-> w.v2, u2main |-> w.u2main, u2perp |-> w.u2perp]
without_wind(r) ==
    [t |-> r.t, year |-> r.year, height |-> r.height, station |-> r.station,
     u |-> NaN, v |-> NaN, speed |-> NaN, direction |-> NaN,
     u2 |-> NaN, v2 |-> NaN, u2main |-> NaN, u2perp |-> NaN]

\* the rows of the join that one station row gives
matches(r, wrows) == SelectSeq(wrows, LAMBDA w : w.t = r.t)
left_rows(r, wrows) ==
    LET m == matches(r, wrows)
    IN  IF m = <<>> THEN <<without_wind(r)>>
        ELSE [k \in DOMAIN m |-> with_wind(r, m[k])]
inner_rows(r, wrows) ==
    LET m == matches(r, wrows)
    IN  [k \in DOMAIN m |-> with_wind(r, m[k])]

\* pandas.merge(df, wind, how='left', left_index=True, right_index=True):
\* the rows of df in their order, each with the wind row of its timestamp
RECURSIVE merge_inner(_, _)
merge_inner(rows, wrows) ==
    IF rows = <<>> THEN <<>>
    ELSE inner_rows(Head(rows), wrows) \o merge_inner(Tail(rows), wrows)
RECURSIVE merge_left(_, _)
merge_left(rows, wrows) ==
    IF rows = <<>> THEN <<>>
    ELSE left_rows(Head(rows), wrows) \o merge_left(Tail(rows), wrows)

\* the frame that is joined: wind_df for monthly data, its annual means otherwise
wind_to_join(ds, rows) ==
    IF ds \in {"rlr_monthly", "met_monthly"} THEN rows ELSE resample_annual(rows)

\* merged[col] = np.where(np.isnan(merged['u']), np.nanmean(merged[col]), ...)
\* for u2 and v2 (on v), and on isnan(u) | isnan(v) for u2main and u2perp
impute_none(frame) == frame
impute_wrong_column(frame) ==
    [k \in DOMAIN frame |->
        LET r     == frame[k]
            index == isnan(r.u) \/ isnan(r.v)
        IN  [r EXCEPT
               !.u2 = IF isnan(r.u) THEN nanmean(Column(frame, "u2")) ELSE r.u2,
               !.v2 = IF isnan(r.v) THEN nanmean(Column(frame, "u2")) ELSE r.v2,
               !.u2main = IF index THEN nanmean(Column(frame, "u2main")) ELSE r.u2main,
               !.u2perp = IF index THEN nanmean(Column(frame, "u2main")) ELSE r.u2perp]]
impute_zero(frame) ==
    [k \in DOMAIN frame |->
        LET r     == frame[k]
            index == isnan(r.u) \/ isnan(r.v)
        IN  [r EXCEPT
               !.u2 = IF isnan(r.u) THEN float(0) ELSE r.u2,
               !.v2 = IF isnan(r.v) THEN float(0) ELSE r.v2,
               !.u2main = IF index THEN float(0) ELSE r.u2main,
               !.u2perp = IF index THEN float(0) ELSE r.u2perp]]
impute(frame) ==
    [k \in DOMAIN frame |->
        LET r     == frame[k]
            index == isnan(r.u) \/ isnan(r.v)
        IN  [r EXCEPT
               !.u2 = IF isnan(r.u) THEN nanmean(Column(frame, "u2")) ELSE r.u2,
               !.v2 = IF isnan(r.v) THEN nanmean(Column(frame, "v2")) ELSE r.v2,
               !.u2main = IF index THEN nanmean(Column(frame, "u2main")) ELSE r.u2main,
               !.u2perp = IF index THEN nanmean(Column(frame, "u2perp")) ELSE r.u2perp]]

-----------------------------------------------------------------------------
(* Specification Spec: one call of get_data, step by step *)

Datasets == {"rlr_monthly", "rlr_annual", "met_monthly"}

\* the year fraction in the middle of month m of year y (a monthly record)
MidMonth(y, m) == YearFraction(y, (m - 1) * Sub + (Sub \div 2))

\* the year fractions of a data file: monthly files hold the middles of the
\* months and possibly the start of the year, annual files whole years
FileYears(ds) ==
    IF ds = "rlr_annual"
    THEN {YearFraction(FirstYear, 0), YearFraction(FirstYear + 1, 0)}
    ELSE {YearFraction(FirstYear, 0), MidMonth(FirstYear, 1), MidMonth(FirstYear, 2)}

\* the raw heights of a data file: the sentinel and a reading
RawHeights == {Missing, 7000}

RawRows(ds) == [year : FileYears(ds), height : RawHeights]

\* the values (m) of the 'Add ... onwards' sentences: 6.930m and 6.000m
SentenceValues == {Rat(6930, 1000), float(6)}

\* the texts of RLR_info/<id>.txt: a line without sentence, one sentence,
\* two sentences on two lines
RlrInfos(ds) ==
    IF typetag(ds) = "rlr"
    THEN {<< <<>> >>, << <<Rat(6930, 1000)>> >>, << <<float(6)>>, <<Rat(6930, 1000)>> >>}
    ELSE {<< <<>> >>}

\* the wind series: at each timestamp of the time axis one sample or none
Absent == <<>>
SeriesOf(f) ==
    LET present == SelectSeq([k \in 1..NWind |-> k], LAMBDA k : f[k] # Absent)
    IN  [n \in DOMAIN present |->
            wind_row(WindTime(present[n]), f[present[n]][1], f[present[n]][2])]
WindSeries == {SeriesOf(f) : f \in [1..NWind -> WindVectors \cup {Absent}]}

NoWind == [none |-> TRUE, rows |-> <<>>]

\* the shore angles of the dictionary alphas, in degrees
Angles == {0, 90}
AlphasOf(a) == [n \in {"vlissingen"} |-> a]

NaT == [year |-> 0, month |-> 0, day |-> 0]

Init ==
    /\ dataset \in Datasets
    /\ station = [id |-> 20, name |-> "VLISSINGEN"]
    /\ zf \in [data : SeqsOf(RawRows(dataset), 1, MaxRows), rlr_info : RlrInfos(dataset)]
    /\ \/ wind_df = NoWind /\ alphas = AlphasOf(0)
       \/ /\ wind_df \in {[none |-> FALSE, rows |-> w] : w \in WindSeries}
          /\ alphas \in {AlphasOf(a) : a \in Angles}
    /\ df = <<>>
    /\ merged = <<>>
    /\ pc = "start"
    /\ error = "none"
    /\ IdleY2D
    /\ IdleFC
    /\ IdleExt

Fail(e) == pc' = "failed" /\ error' = e

\* lines 344-364: the datum correction for rlr data, then read_csv with the
\* height converter
ReadCsv ==
    /\ pc = "start"
    /\ IF typetag(dataset) = "rlr" /\ ~get_rlr2nap(zf.rlr_info).ok
       THEN Fail(get_rlr2nap(zf.rlr_info).error) /\ UNCHANGED df
       ELSE /\ df' = [k \in DOMAIN zf.data |->
                        [year |-> zf.data[k].year,
                         height |-> parse_height(dataset, zf.rlr_info, zf.data[k].height),
                         station |-> 0, t |-> NaT]]
            /\ pc' = "read"
            /\ UNCHANGED error
    /\ UNCHANGED <<dataset, station, zf, wind_df, alphas, merged, y2d_vars, fc_vars, ext_vars>>

\* lines 365-367: the station column and the index t = year2date(df.year)
SetIndex ==
    /\ pc = "read"
    /\ LET r == year2date(Column(df, "year"))
       IN  IF r.ok
           THEN /\ df' = [k \in DOMAIN df |->
                            [df[k] EXCEPT !.station = station.id, !.t = r.dates[k]]]
                /\ pc' = "indexed"
                /\ UNCHANGED error
           ELSE Fail(r.error) /\ UNCHANGED df
    /\ UNCHANGED <<dataset, station, zf, wind_df, alphas, merged, y2d_vars, fc_vars, ext_vars>>

ReturnLevels_after_lookup ==
    /\ pc = "indexed"
    /\ wind_df.none
    /\ IF alphas = Undefined
       THEN Fail("NameError")
       ELSE pc' = "done" /\ UNCHANGED error
    /\ UNCHANGED <<dataset, station, zf, wind_df, alphas, df, merged,
                   y2d_vars, fc_vars, ext_vars>>

\* lines 369-371: without wind, only the water levels are returned
ReturnLevels ==
    /\ pc = "indexed"
    /\ wind_df.none
    /\ pc' = "done"
    /\ UNCHANGED <<dataset, station, zf, wind_df, alphas, df, merged, error,
                   y2d_vars, fc_vars, ext_vars>>

\* lines 375-382: the shore angle of the station from the dictionary alphas,
\* and the columns u2main and u2perp written into wind_df
Project ==
    /\ pc = "indexed"
    /\ ~wind_df.none
    /\ IF alphas = Undefined
       THEN Fail("NameError") /\ UNCHANGED wind_df
       ELSE IF lower(station.name) \in DOMAIN alphas
       THEN /\ wind_df' = [wind_df EXCEPT
                             !.rows = project(wind_df.rows, alphas[lower(station.name)])]
            /\ pc' = "projected"
            /\ UNCHANGED error
       ELSE Fail("KeyError") /\ UNCHANGED wind_df
    /\ UNCHANGED <<dataset, station, zf, alphas, df, merged, y2d_vars, fc_vars, ext_vars>>

\* lines 384-389: the left join with the wind series or its annual means
Merge ==
    /\ pc = "projected"
    /\ merged' = merge_left(df, wind_to_join(dataset, wind_df.rows))
    /\ pc' = "merged"
    /\ UNCHANGED <<dataset, station, zf, wind_df, alphas, df, error, y2d_vars, fc_vars, ext_vars>>

\* lines 391-397: the rows without wind get the column means
Impute ==
    /\ pc = "merged"
    /\ merged' = impute(merged)
    /\ pc' = "done"
    /\ UNCHANGED <<dataset, station, zf, wind_df, alphas, df, error, y2d_vars, fc_vars, ext_vars>>

Next == ReadCsv \/ SetIndex \/ ReturnLevels \/ Project \/ Merge \/ Impute

Spec == Init /\ [][Next]_vars

\* the frame get_data returns
Returned == IF wind_df.none THEN df ELSE merged

\* the frame that was joined to the station rows
Joined == wind_to_join(dataset, wind_df.rows)

HasSample(r) == ~isnan(r.u)
Sampled(frame) == SelectSeq(frame, HasSample)

\* C7: the join keeps every station row, in order and once, whether or not
\* a wind sample exists for its timestamp (the wind series has unique
\* timestamps), and a wind timestamp without station row adds no row.
C7_LeftJoinKeepsStationRows ==
    pc \in {"merged", "done"} /\ ~wind_df.none =>
        /\ Len(merged) = Len(df)
        /\ \A k \in DOMAIN df :
              /\ merged[k].t = df[k].t
              /\ merged[k].year = df[k].year
              /\ merged[k].height = df[k].height
              /\ merged[k].station = df[k].station
        /\ \A k \in DOMAIN merged :
              HasSample(merged[k]) <=> \E n \in DOMAIN Joined : Joined[n].t = merged[k].t

\* a join in which a station row has a sample, a later one in an earlier
\* month has none, and a wind timestamp has no station row
C7_Witness ==
    /\ pc = "merged"
    /\ Len(df) >= 2
    /\ HasSample(merged[1]) /\ ~HasSample(merged[2])
    /\ df[2].t.month < df[1].t.month
    /\ \E n \in DOMAIN Joined : \A k \in DOMAIN df : df[k].t # Joined[n].t

ImputedColumns == {"u2", "v2", "u2main", "u2perp"}

\* the mean of column c over the rows of the frame that have a wind sample
\* (NaN when no row has one)
SampledMean(frame, c) ==
    LET rows == Sampled(frame)
    IN  IF rows = <<>> THEN NaN ELSE RDiv(SeqSum(Column(rows, c)), Len(rows))

ImputeStep == pc = "merged" /\ pc' = "done"

YearMean(rows, y, c) ==
    LET grp == SelectSeq(rows, LAMBDA r : r.t.year = y)
    IN  IF grp = <<>> THEN NaN ELSE RDiv(SeqSum(Column(grp, c)), Len(grp))

\* the value of column c of the series at timestamp t (NaN when the series
\* has no sample at t)
SampleAt(rows, t, c) ==
    IF \E n \in DOMAIN rows : rows[n].t = t
    THEN rows[CHOOSE n \in DOMAIN rows : rows[n].t = t][c]
    ELSE NaN

\* C23: for annual data the station row of year Y (timestamp 1 January Y)
\* gets, in every wind column, the mean of the wind samples of calendar
\* year Y; for monthly data a station row gets the wind sample of its own
\* timestamp, without resampling.
C23_AnnualMeansJoined ==
    pc = "merged" =>
        \A k \in DOMAIN merged : \A c \in WindColumns :
            IF dataset = "rlr_annual"
            THEN /\ merged[k].t = [year |-> floor_year(df[k].year), month |-> 1, day |-> 1]
                 /\ merged[k][c] = YearMean(wind_df.rows, merged[k].t.year, c)
            ELSE merged[k][c] = SampleAt(wind_df.rows, merged[k].t, c)

\* annual rows of two years, the first year with two different samples and
\* a mean that differs from the second year's sample
C23_Witness ==
    /\ pc = "merged"
    /\ dataset = "rlr_annual"
    /\ Len(merged) = 2
    /\ merged[1].t.year # merged[2].t.year
    /\ HasSample(merged[1]) /\ HasSample(merged[2])
    /\ merged[1].u2 # merged[2].u2
    /\ \E a, b \in DOMAIN wind_df.rows :
          /\ wind_df.rows[a].t.year = wind_df.rows[b].t.year
          /\ wind_df.rows[a].u2 # wind_df.rows[b].u2

\* C10: in the returned frame of every dataset variant a raw height equal
\* to the sentinel is missing (NaN), and no other raw height is.
C10_SentinelIsMissing ==
    pc = "done" =>
        /\ Len(Returned) = Len(zf.data)
        /\ \A k \in DOMAIN zf.data :
              zf.data[k].height = Missing <=> isnan(Returned[k].height)

-----------------------------------------------------------------------------
(* Specification SpecRLR: get_rlr2nap on every bounded RLR_info text *)

\* most lines of a text / most sentences of a line
MaxLines == 2
MaxSentences == 2

InfoLines == SeqsOf(SentenceValues, 0, MaxSentences)
InfoTexts == SeqsOf(InfoLines, 0, MaxLines)

InitRLR ==
    /\ info_text \in InfoTexts
    /\ rlr2nap_out = NoCorrection
    /\ IdleY2D
    /\ IdleFC
    /\ IdleGD
    /\ IdleLM
    /\ IdleMW
    /\ IdlePar
    /\ IdleGS
    /\ IdleC2N
    /\ IdleArg

\* rlr2nap = get_rlr2nap(zf, station, dataset)
CallGetRlr2nap ==
    /\ rlr2nap_out = NoCorrection
    /\ rlr2nap_out' = get_rlr2nap(info_text)
    /\ UNCHANGED <<info_text, y2d_vars, fc_vars, gd_vars, lm_vars, mw_vars, procs, gs_vars, c2n_vars, arg_vars>>

NextRLR == CallGetRlr2nap

SpecRLR == InitRLR /\ [][NextRLR]_vars

\* the values of all sentences of a text, in document order
RECURSIVE AllSentences(_)
AllSentences(text) ==
    IF text = <<>> THEN <<>> ELSE Head(text) \o AllSentences(Tail(text))

\* heights (mm) given to the returned function
SomeHeights == {float(7000), float(0), Rat(-13, 2)}

\* C11: when the text holds at least one sentence 'Add <value> to data
\* <from> onwards', the returned function maps every height h to h minus
\* 1000 times the value of the last such sentence of the document; the
\* sentences before it have no effect.
C11_LastSentenceCorrects ==
    rlr2nap_out # NoCorrection /\ AllSentences(info_text) # <<>> =>
        LET all == AllSentences(info_text)
        IN  /\ rlr2nap_out.ok
            /\ \A h \in SomeHeights :
                  rlr2nap(rlr2nap_out.correction, h)
                      = RSub(h, RMul(all[Len(all)], float(1000)))

\* a text with two sentences on one line and a different one on the next
C11_Witness ==
    /\ rlr2nap_out.ok
    /\ Len(info_text) = 2
    /\ Len(info_text[1]) = 2 /\ Len(info_text[2]) = 1
    /\ info_text[1][2] # info_text[2][1]
    /\ info_text[1][1] # info_text[1][2]

\* C19: when the RLR_info text holds no sentence 'Add <value> to data <from>
\* onwards', get_rlr2nap fails and returns no correction function, and
\* get_data on rlr data of that station fails too, at the read, without
\* returning a frame of uncorrected heights.
C19_NoSentenceFails ==
    typetag(dataset) = "rlr" /\ AllSentences(zf.rlr_info) = <<>> =>
        /\ ~get_rlr2nap(zf.rlr_info).ok
        /\ pc # "start" =>
              /\ pc = "failed"
              /\ error = get_rlr2nap(zf.rlr_info).error
              /\ error # "none"
              /\ df = <<>> /\ merged = <<>>

\* get_data has failed on rlr data whose text has a line but no sentence
C19_Witness ==
    /\ typetag(dataset) = "rlr"
    /\ zf.rlr_info # <<>> /\ AllSentences(zf.rlr_info) = <<>>
    /\ pc = "failed" /\ error = "IndexError"

-----------------------------------------------------------------------------
(* linear_model *)

\* An entry of the design matrix.  The nodal columns hold cosines and
\* sines of 2*pi*t/18.613, which are kept as the kind of the entry and the
\* argument t that determines its value: for the t of the model two cosines
\* are equal exactly when their |t| are, two sines when their t are, no
\* cosine is 0 and a sine is 0 only at t = 0.
num(x) == [kind |-> "num", val |-> x]
nodal_u(t) == IF t = float(0) THEN num(float(1))
              ELSE [kind |-> "cos", val |-> <<Abs(t[1]), t[2]>>]
nodal_v(t) == IF t = float(0) THEN num(float(0)) ELSE [kind |-> "sin", val |-> t]

cell_isnan(c) == isnan(c.val)
cell_iszero(c) == c = num(float(0))

\* df['year'] - 1970
Epoch == 1970
years_since(y) == Rat(y - Epoch * Unit, Unit)

\* month = np.mod(df['year'], 1) * 12.0
month_value(y) == RMul(Rat(remainder(y), Unit), float(NumMonths))

\* np.logical_and(month >= i, month < i+1), as a column entry
indicator_shifted(y, i) ==
    IF RLess(float(i), month_value(y)) /\ ~RLess(float(i + 1), month_value(y))
    THEN num(float(1)) ELSE num(float(0))
indicator(y, i) ==
    IF ~RLess(month_value(y), float(i)) /\ RLess(month_value(y), float(i + 1))
    THEN num(float(1)) ELSE num(float(0))

\* for i in range(11): names.append('month_%s' % (i+1, ))
NumIndicators == 11
MonthNames == <<"month_1", "month_2", "month_3", "month_4", "month_5", "month_6",
                "month_7", "month_8", "month_9", "month_10", "month_11", "month_12">>

\* a column of the design matrix: its entries and, as origin, the name the
\* column goes by where it is built
column(origin, cells) == [origin |-> origin, cells |-> cells]

\* X of lines 465-485, before add_constant
design_matrix(frame, with_wind_, with_season_) ==
    LET rows == DOMAIN frame
        base == <<column("Trend", [k \in rows |-> num(years_since(frame[k].year))]),
                  column("Nodal U", [k \in rows |-> nodal_u(years_since(frame[k].year))]),
                  column("Nodal V", [k \in rows |-> nodal_v(years_since(frame[k].year))])>>
        wind == IF with_wind_
                THEN <<column("Wind U^2", [k \in rows |-> num(frame[k].u2)]),
                       column("Wind V^2", [k \in rows |-> num(frame[k].v2)])>>
                ELSE <<>>
        season == IF with_season_
                  THEN [n \in 1..NumIndicators |->
                          column(MonthNames[n],
                                 [k \in rows |-> indicator(frame[k].year, n - 1)])]
                  ELSE <<>>
    IN  base \o wind \o season

\* names of lines 471-485
names_of(with_wind_, with_season_) ==
    <<"Constant", "Trend", "Nodal U", "Nodal V">>
    \o (IF with_wind_ THEN <<"Wind U^2", "Wind V^2">> ELSE <<>>)
    \o (IF with_season_ THEN [n \in 1..NumIndicators |-> MonthNames[n]] ELSE <<>>)

\* statsmodels' add_constant(X) with its defaults prepend=True and
\* has_constant='skip': a column whose entries are all equal (np.ptp == 0,
\* which a NaN entry prevents) and not 0 is a constant already, and X is
\* then returned as it is; otherwise a column of ones is put in front.
is_nonzero_const(col) ==
    /\ \A k \in DOMAIN col.cells :
          ~cell_isnan(col.cells[k]) /\ col.cells[k] = col.cells[1]
    /\ \A k \in DOMAIN col.cells : ~cell_iszero(col.cells[k])
ones(rows) == column("Constant", [k \in rows |-> num(float(1))])
add_constant(X, rows) ==
    IF \E n \in DOMAIN X : is_nonzero_const(X[n]) THEN X ELSE <<ones(rows)>> \o X

\* sm.OLS(y, X, missing='drop'): the rows in which y or an entry of X is NaN
\* are dropped; the indices of the rows that are kept
rows_kept(y, X) ==
    SelectSeq([k \in DOMAIN y |-> k],
              LAMBDA k : ~isnan(y[k]) /\ \A n \in DOMAIN X : ~cell_isnan(X[n].cells[k]))

\* linear_model(df, with_wind, with_season).  has_wind tells whether df has
\* the columns u2 and v2 (df['u2'] raises KeyError otherwise).  np.ptp of
\* add_constant and np.max of the OLS constructor raise ValueError on a
\* matrix without rows; fit() solves by the pseudo-inverse and so returns
\* a fit for every matrix with a row, of full rank or not.
linear_model(frame, has_wind, with_wind_, with_season_) ==
    LET outcome == [called |-> TRUE, ok |-> FALSE, error |-> "none",
                    with_wind |-> with_wind_, with_season |-> with_season_,
                    names |-> <<>>, X |-> <<>>, used |-> <<>>]
    IN  IF with_wind_ /\ ~has_wind
        THEN [outcome EXCEPT !.error = "KeyError"]
        ELSE IF frame = <<>>
        THEN [outcome EXCEPT !.error = "ValueError"]
        ELSE LET y == Column(frame, "height")
                 X == add_constant(design_matrix(frame, with_wind_, with_season_),
                                   DOMAIN frame)
                 used == rows_kept(y, X)
             IN  IF used = <<>>
                 THEN [outcome EXCEPT !.error = "ValueError", !.X = X]
                 ELSE [outcome EXCEPT !.ok = TRUE, !.X = X, !.used = used,
                                      !.names = names_of(with_wind_, with_season_)]

-----------------------------------------------------------------------------
(* Specification SpecLM: linear_model on every bounded one-station frame *)

\* most rows of a frame given to linear_model called on its own
MaxFrame == 1

\* the rows of a frame as get_data returns it with wind, as far as
\* linear_model reads them
FitRows == [year : YearFractions, height : {NaN, float(70)},
            u2 : {float(9)}, v2 : {float(4)}]

InitLM ==
    /\ lm_df \in SeqsOf(FitRows, 1, MaxFrame)
    /\ fit = NoFit
    /\ IdleY2D
    /\ IdleFC
    /\ IdleGD
    /\ IdleRLR
    /\ IdleMW
    /\ IdlePar
    /\ IdleGS
    /\ IdleC2N
    /\ IdleArg

\* fit, names = linear_model(df, with_wind, with_season)
CallLinearModel ==
    /\ ~fit.called
    /\ lm_df # <<>>
    /\ \E with_wind_, with_season_ \in BOOLEAN :
          fit' = linear_model(lm_df, TRUE, with_wind_, with_season_)
    /\ UNCHANGED <<lm_df, y2d_vars, fc_vars, gd_vars, rlr_vars, mw_vars, procs, gs_vars, c2n_vars, arg_vars>>

NextLM == CallLinearModel

SpecLM == InitLM /\ [][NextLM]_vars

\* the calendar month (1..12) a year fraction falls in: month k holds the
\* fractions from (k-1)/12 up to, and not including, k/12
CalendarMonth(y) == (remainder(y) \div Sub) + 1

\* the n-th of the last NumIndicators columns of the design matrix
IndicatorColumn(n) == fit.X[Len(fit.X) - NumIndicators + n]

\* C13: with with_season the design matrix ends with exactly 11 indicator
\* columns, month_1 to month_11; the entry of month_k in a row is 1 exactly
\* when the year fraction of the row falls in calendar month k, and 0
\* otherwise; so a row has at most one indicator set and a row of month 12
\* has none.  Without with_season there is no indicator column.
C13_SeasonalIndicators ==
    fit.called /\ fit.X # <<>> =>
        LET seasonal == {n \in DOMAIN fit.X :
                            \E m \in DOMAIN MonthNames : fit.X[n].origin = MonthNames[m]}
        IN  IF fit.with_season
            THEN /\ seasonal = (Len(fit.X) - NumIndicators + 1)..Len(fit.X)
                 /\ Cardinality(seasonal) = 11
                 /\ \A n \in 1..NumIndicators :
                       /\ IndicatorColumn(n).origin = MonthNames[n]
                       /\ fit.ok => fit.names[Len(fit.names) - NumIndicators + n]
                                        = MonthNames[n]
                       /\ \A k \in DOMAIN lm_df :
                             IndicatorColumn(n).cells[k]
                                = IF CalendarMonth(lm_df[k].year) = n
                                  THEN num(float(1)) ELSE num(float(0))
                 /\ \A k \in DOMAIN lm_df :
                       /\ Cardinality({n \in 1..NumIndicators :
                              IndicatorColumn(n).cells[k] = num(float(1))}) <= 1
                       /\ CalendarMonth(lm_df[k].year) = 12 =>
                             \A n \in 1..NumIndicators :
                                IndicatorColumn(n).cells[k] = num(float(0))
            ELSE seasonal = {}

\* a seasonal fit on a row whose year fraction is exactly 1/12: month_2 is set
C13_Witness ==
    /\ fit.ok /\ fit.with_season
    /\ remainder(lm_df[1].year) = Sub
    /\ IndicatorColumn(2).cells[1] = num(float(1))

-----------------------------------------------------------------------------
(* Specification SpecFit: get_data for one station, then linear_model on   *)
(* the frame it returns                                                    *)

\* most rows of the data file
MaxFitRows == 3

\* the year fractions of the data file: whole years in an annual file; in a
\* monthly file the start of the year, a point just below 1/12 (0.0833)
\* and a point just above 2/12 (0.1667)
FitFileYears(ds) ==
    IF ds = "rlr_annual"
    THEN {YearFraction(FirstYear, 0), YearFraction(FirstYear + 1, 0)}
    ELSE {YearFraction(FirstYear, 0), YearFraction(FirstYear, Sub - 1),
          YearFraction(FirstYear, 2 * Sub + 1)}

\* the raw heights of the data file: the sentinel and two readings
FitRawHeights == {Missing, 100, 105}

\* wind series with a sample in the first month only, and in every month
FitWindSeries ==
    {SeriesOf([k \in 1..NWind |-> IF k = 1 THEN <<3, 0>> ELSE Absent]),
     SeriesOf([k \in 1..NWind |-> IF k = 1 THEN <<3, 0>> ELSE <<0, -2>>])}

InitFit ==
    /\ dataset \in Datasets
    /\ station = [id |-> 20, name |-> "VLISSINGEN"]
    /\ zf \in [data : SeqsOf([year : FitFileYears(dataset), height : FitRawHeights],
                              1, MaxFitRows),
                rlr_info : {<< <<Rat(6930, 1000)>> >>}]
    /\ wind_df \in {NoWind} \cup {[none |-> FALSE, rows |-> w] : w \in FitWindSeries}
    /\ alphas = AlphasOf(0)
    /\ df = <<>>
    /\ merged = <<>>
    /\ pc = "start"
    /\ error = "none"
    /\ fit = NoFit
    /\ lm_df = <<>>
    /\ IdleY2D
    /\ IdleFC
    /\ IdleRLR
    /\ IdleMW
    /\ IdlePar
    /\ IdleGS
    /\ IdleC2N
    /\ IdleArg

\* fit, names = linear_model(df, with_wind, with_season) on the frame
\* get_data returned
LinearModel ==
    /\ pc = "done"
    /\ ~fit.called
    /\ \E with_wind_, with_season_ \in BOOLEAN :
          fit' = linear_model(Returned, ~wind_df.none, with_wind_, with_season_)
    /\ UNCHANGED <<lm_df, gd_vars, y2d_vars, fc_vars, rlr_vars, mw_vars, procs, gs_vars, c2n_vars, arg_vars>>

NextFit ==
    ReadCsv \/ SetIndex \/ ReturnLevels \/ Project \/ Merge \/ Impute \/ LinearModel

SpecFit == InitFit /\ [][NextFit]_vars

\* the number of columns 4 + 2 (with_wind) + 11 (with_season)
ColumnCount(with_wind_, with_season_) ==
    4 + (IF with_wind_ THEN 2 ELSE 0) + (IF with_season_ THEN NumIndicators ELSE 0)

\* C12: for every frame on which the fit succeeds, there are as many names
\* as columns in the fitted design matrix, 4 + 2 (with_wind) + 11
\* (with_season), every column goes by the name at its position, and the
\* first column, Constant, is the added column of ones.
C12_NamesPairColumns ==
    fit.ok =>
        /\ Len(fit.names) = ColumnCount(fit.with_wind, fit.with_season)
        /\ Len(fit.X) = Len(fit.names)
        /\ \A n \in DOMAIN fit.X : n \in DOMAIN fit.names /\ fit.X[n].origin = fit.names[n]
        /\ fit.X[1] = ones(DOMAIN Returned)

\* the indices of the rows of a frame whose height is present
PresentRows(frame) ==
    SelectSeq([k \in DOMAIN frame |-> k], LAMBDA k : ~isnan(frame[k].height))

\* C14: linear_model drops the rows whose height is missing and no other
\* row: the fit uses exactly the rows of the frame whose height is present.
C14_OnlyMissingHeightsDropped ==
    fit.called /\ fit.error # "KeyError" => fit.used = PresentRows(Returned)

\* C15: linear_model fails whenever fewer rows are left, after the rows
\* with missing values are dropped, than the design matrix has columns (the
\* matrix is then rank-deficient).
C15_RankDeficientFails ==
    fit.called /\ fit.X # <<>>
        /\ Len(rows_kept(Column(Returned, "height"), fit.X)) < Len(fit.X)
        => ~fit.ok

\* C29: in the frame get_data returns with a wind series, u2, v2, u2main
\* and u2perp have no missing value in any row when at least one station
\* timestamp has a wind sample; when none has, the four columns are missing
\* in every row, and linear_model with with_wind then has no usable row.
C29_CovariatesComplete ==
    pc = "done" /\ ~wind_df.none =>
        IF \E k \in DOMAIN merged : HasSample(merged[k])
        THEN \A k \in DOMAIN merged : \A c \in ImputedColumns : ~isnan(merged[k][c])
        ELSE /\ \A k \in DOMAIN merged : \A c \in ImputedColumns : isnan(merged[k][c])
             /\ fit.called /\ fit.with_wind => fit.used = <<>> /\ ~fit.ok

\* a fit with wind on a frame in which a row with a height had no wind
\* sample and got the means of a row that has one
C29_Witness ==
    /\ pc = "done" /\ ~wind_df.none
    /\ fit.called /\ fit.with_wind /\ fit.ok
    /\ \E a, b \in DOMAIN merged :
          /\ HasSample(merged[a]) /\ ~HasSample(merged[b])
          /\ ~isnan(merged[b].height)
          /\ merged[b].u2 = merged[a].u2

\* the data file of the scenario: (1930.0, 100), (1930.0833, missing),
\* (1930.1667, 105), given to get_data without wind
ScenarioData ==
    <<[year |-> YearFraction(FirstYear, 0), height |-> 100],
      [year |-> YearFraction(FirstYear, Sub - 1), height |-> Missing],
      [year |-> YearFraction(FirstYear, 2 * Sub + 1), height |-> 105]>>
ScenarioInput == zf.data = ScenarioData /\ dataset = "rlr_monthly" /\ wind_df.none

\* C16: on the scenario the timestamps of all three rows are decoded, and
\* the fit without wind and without season uses exactly the two rows with
\* a height and has the columns and names Trend, Nodal U and Nodal V.
C16_EndToEndScenario ==
    ScenarioInput =>
        /\ pc # "failed"
        /\ pc = "done" => Len(df) = 3 /\ \A k \in DOMAIN df : df[k].t # NaT
        /\ fit.called /\ ~fit.with_wind /\ ~fit.with_season =>
              /\ fit.ok
              /\ fit.used = <<1, 3>>
              /\ \A c \in {"Trend", "Nodal U", "Nodal V"} :
                    /\ \E n \in DOMAIN fit.names : fit.names[n] = c
                    /\ \E n \in DOMAIN fit.X : fit.X[n].origin = c

-----------------------------------------------------------------------------
(* Specification SpecY2DAny: year2date on arguments that may hold NaN and  *)
(* negative year fractions                                                 *)

\* NaN, the year fractions from -1 up to 0, a negative whole year, and the
\* year fractions of the first year
AnyYearFractions ==
    {NanYear}
    \cup {YearFraction(-1, p) : p \in 0..(Unit - 1)}
    \cup {YearFraction(-FirstYear, 0)}
    \cup {YearFraction(FirstYear, p) : p \in 0..(Unit - 1)}

InitY2DAny ==
    /\ year_fraction \in SeqsOf(AnyYearFractions, 0, MaxLen)
    /\ datetime64s = NotCalled
    /\ IdleFC
    /\ IdleGD
    /\ IdleExt

SpecY2DAny == InitY2DAny /\ [][NextY2D]_vars

\* C20: when an input year fraction is NaN or negative, year2date fails
\* with ValueError and returns no timestamps.
C20_NanOrNegativeFails ==
    Called /\ (\E k \in DOMAIN year_fraction :
                  year_isnan(year_fraction[k]) \/ year_fraction[k] < 0)
        => /\ ~datetime64s.ok
           /\ datetime64s.error = "ValueError"
           /\ datetime64s.dates = <<>>

\* a call on a valid year fraction followed by a negative one that is not
\* on a month boundary
C20_Witness ==
    /\ Called
    /\ Len(year_fraction) = 2
    /\ year_fraction[1] = MidMonth(FirstYear, 3)
    /\ ~year_isnan(year_fraction[2]) /\ year_fraction[2] < 0
    /\ remainder(year_fraction[2]) % Sub # 0
    /\ ~datetime64s.ok

-----------------------------------------------------------------------------
(* Specification SpecWind: one call of make_wind_df, step by step *)

\* longest axis of a file
MaxGrid == 2

\* the coordinates of the lat and lon axes, and the values of the time
\* axis: the number k stands for the timestamp WindTime(k)
GridValues == {0, 1}
TimeValues == {1, 2, 3}

\* an axis of a file holds no value twice
AxesOver(S) ==
    {a \in SeqsOf(S, 1, MaxGrid) : \A m, n \in DOMAIN a : m # n => a[m] # a[n]}

FileAxes == [lat : AxesOver(GridValues), lon : AxesOver(GridValues),
             time : AxesOver(TimeValues)]

\* ds_u.variables['uwnd'][k, i, j] and ds_v.variables['vwnd'][k, i, j]: a
\* field whose vectors lie along an axis (k from 1, i and j from 0)
uwnd(k, i, j) == IF (k + i + j) % 2 = 0 THEN 3 ELSE 0
vwnd(k, i, j) == IF (k + i + j) % 2 = 0 THEN 0 ELSE -2

\* (a == b).all() on two axes: element by element for equal lengths; for
\* different lengths one of the two axes of the model has length 1 and is
\* broadcast along the other
eq_all(a, b) ==
    IF Len(a) = Len(b)
    THEN \A k \in DOMAIN a : a[k] = b[k]
    ELSE \A m \in DOMAIN a, n \in DOMAIN b : a[m] = b[n]

\* the condition of the assert of line 121
axes_agree_but_time(u, v) == eq_all(u.lat, v.lat) /\ eq_all(u.lon, v.lon)
axes_agree(u, v) ==
    eq_all(u.lat, v.lat) /\ eq_all(u.lon, v.lon) /\ eq_all(u.time, v.time)

InitWind ==
    /\ ds_u \in FileAxes
    /\ ds_v \in FileAxes
    /\ mw_target \in GridValues \X GridValues
    /\ mw_ij = <<>>
    /\ mw_df = <<>>
    /\ mw_pc = "start"
    /\ mw_error = "none"
    /\ IdleY2D
    /\ IdleFC
    /\ IdleGD
    /\ IdleRLR
    /\ IdleLM
    /\ IdlePar
    /\ IdleGS
    /\ IdleC2N
    /\ IdleArg

\* lines 116-121: the axes of both files are read and compared
CheckAxes ==
    /\ mw_pc = "start"
    /\ IF axes_agree(ds_u, ds_v)
       THEN mw_pc' = "checked" /\ UNCHANGED mw_error
       ELSE mw_pc' = "failed" /\ mw_error' = "AssertionError"
    /\ UNCHANGED <<ds_u, ds_v, mw_target, mw_ij, mw_df,
                   y2d_vars, fc_vars, gd_vars, rlr_vars, lm_vars, procs, gs_vars, c2n_vars, arg_vars>>

\* lines 124-135: the timestamps and the cell closest to the target
FindCell ==
    /\ mw_pc = "checked"
    /\ mw_ij' = find_closest(ds_u.lat, ds_u.lon, mw_target[1], mw_target[2])
    /\ mw_pc' = "found"
    /\ UNCHANGED <<ds_u, ds_v, mw_target, mw_df, mw_error,
                   y2d_vars, fc_vars, gd_vars, rlr_vars, lm_vars, procs, gs_vars, c2n_vars, arg_vars>>

\* lines 138-157: the u and v series of the cell and the derived columns
Extract ==
    /\ mw_pc = "found"
    /\ mw_df' = [k \in DOMAIN ds_u.time |->
                    wind_row(WindTime(ds_u.time[k]),
                             uwnd(k, mw_ij[1], mw_ij[2]),
                             vwnd(k, mw_ij[1], mw_ij[2]))]
    /\ mw_pc' = "done"
    /\ UNCHANGED <<ds_u, ds_v, mw_target, mw_ij, mw_error,
                   y2d_vars, fc_vars, gd_vars, rlr_vars, lm_vars, procs, gs_vars, c2n_vars, arg_vars>>

NextWind == CheckAxes \/ FindCell \/ Extract

SpecWind == InitWind /\ [][NextWind]_vars

\* C18: make_wind_df compares the axes of the two files before it extracts
\* anything: when the latitude, the longitude or the time axes of u and v
\* differ, the call fails at the comparison, no cell is looked up and no
\* wind series is returned; when the three axes are the same the comparison
\* passes.
C18_AxesCheckedFirst ==
    mw_pc # "start" =>
        IF ds_u = ds_v
        THEN mw_pc # "failed" /\ mw_error = "none"
        ELSE /\ mw_pc = "failed"
             /\ mw_error = "AssertionError"
             /\ mw_ij = <<>>
             /\ mw_df = <<>>

\* a failed call on files whose latitude and longitude axes are the same
\* and whose time axes differ in the second element only
C18_Witness ==
    /\ mw_pc = "failed"
    /\ ds_u.lat = ds_v.lat /\ ds_u.lon = ds_v.lon
    /\ Len(ds_u.time) = 2 /\ Len(ds_v.time) = 2
    /\ ds_u.time[1] = ds_v.time[1] /\ ds_u.time[2] # ds_v.time[2]

-----------------------------------------------------------------------------
(* Specification SpecPar: two calls of get_data, one per station, on the   *)
(* same wind series, their steps interleaved                               *)

\* most rows of a station's data file
MaxParRows == 1

ParStations == <<[id |-> 20, name |-> "VLISSINGEN"], [id |-> 24, name |-> "DELFZIJL"]>>

\* the dictionary alphas: the two stations face different directions
ParAlphas == [n \in {"vlissingen", "delfzijl"} |-> IF n = "vlissingen" THEN 0 ELSE 90]

ParFiles(ds) ==
    [data : SeqsOf([year : FileYears(ds), height : {7000}], 1, MaxParRows),
     rlr_info : {<< <<Rat(6930, 1000)>> >>}]

InitPar ==
    /\ dataset \in Datasets
    /\ wind_df \in {[none |-> FALSE, rows |-> w] : w \in FitWindSeries}
    /\ alphas = ParAlphas
    /\ procs \in {[s \in DOMAIN ParStations |->
                      [station |-> ParStations[s], zf |-> f[s], df |-> <<>>,
                       merged |-> <<>>, pc |-> "start", error |-> "none"]] :
                  f \in [DOMAIN ParStations -> ParFiles(dataset)]}
    /\ station = [id |-> 0, name |-> "none"]
    /\ zf = [data |-> <<>>, rlr_info |-> <<>>]
    /\ df = <<>> /\ merged = <<>> /\ pc = "idle" /\ error = "none"
    /\ IdleY2D
    /\ IdleFC
    /\ IdleRLR
    /\ IdleLM
    /\ IdleMW
    /\ IdleGS
    /\ IdleC2N
    /\ IdleArg

ParUnchanged ==
    UNCHANGED <<dataset, alphas, station, zf, df, merged, pc, error,
                y2d_vars, fc_vars, rlr_vars, lm_vars, mw_vars, gs_vars, c2n_vars, arg_vars>>

\* lines 344-367 of the call for station s: the file is read and indexed
PLoad(s) ==
    /\ procs[s].pc = "start"
    /\ LET p    == procs[s]
           rows == [k \in DOMAIN p.zf.data |->
                      [year |-> p.zf.data[k].year,
                       height |-> parse_height(dataset, p.zf.rlr_info,
                                               p.zf.data[k].height),
                       station |-> p.station.id, t |-> NaT]]
           r    == year2date(Column(rows, "year"))
       IN  IF r.ok
           THEN procs' = [procs EXCEPT
                    ![s].df = [k \in DOMAIN rows |-> [rows[k] EXCEPT !.t = r.dates[k]]],
                    ![s].pc = "indexed"]
           ELSE procs' = [procs EXCEPT ![s].pc = "failed", ![s].error = r.error]
    /\ UNCHANGED wind_df
    /\ ParUnchanged

\* lines 375-382 of the call for station s: u2main and u2perp for the shore
\* angle of s are written into the wind series both calls hold
PProject(s) ==
    /\ procs[s].pc = "indexed"
    /\ wind_df' = [wind_df EXCEPT
                     !.rows = project(wind_df.rows, alphas[lower(procs[s].station.name)])]
    /\ procs' = [procs EXCEPT ![s].pc = "projected"]
    /\ ParUnchanged

\* lines 384-389 of the call for station s
PMerge(s) ==
    /\ procs[s].pc = "projected"
    /\ procs' = [procs EXCEPT
                   ![s].merged = merge_left(procs[s].df, wind_to_join(dataset, wind_df.rows)),
                   ![s].pc = "merged"]
    /\ UNCHANGED wind_df
    /\ ParUnchanged

\* lines 391-399 of the call for station s
PImpute(s) ==
    /\ procs[s].pc = "merged"
    /\ procs' = [procs EXCEPT ![s].merged = impute(procs[s].merged), ![s].pc = "done"]
    /\ UNCHANGED wind_df
    /\ ParUnchanged

NextPar ==
    \E s \in DOMAIN ParStations : PLoad(s) \/ PProject(s) \/ PMerge(s) \/ PImpute(s)

SpecPar == InitPar /\ [][NextPar]_vars

\* the merged frame of the call for station s when it runs alone on the
\* wind series (the projection overwrites u2main and u2perp and nothing else)
Alone(s) ==
    impute(merge_left(procs[s].df,
                      wind_to_join(dataset,
                                   project(wind_df.rows,
                                           alphas[lower(procs[s].station.name)]))))

\* C17: whatever the interleaving of the steps of the two calls, each
\* station gets the merged frame it gets when its call runs alone.
C17_InterleavingIndependent ==
    \A s \in DOMAIN procs : procs[s].pc = "done" => procs[s].merged = Alone(s)

\* the target lies beyond the range of the latitude or the longitude axis
OutOfCoverage ==
    \/ \A k \in DOMAIN ds_u.lat : ds_u.lat[k] < mw_target[1]
    \/ \A k \in DOMAIN ds_u.lat : ds_u.lat[k] > mw_target[1]
    \/ \A k \in DOMAIN ds_u.lon : ds_u.lon[k] < mw_target[2]
    \/ \A k \in DOMAIN ds_u.lon : ds_u.lon[k] > mw_target[2]

\* C21: when the target lies outside the coverage of the wind grid, the
\* lookup fails with ValueError: no cell is returned and no wind series of
\* an edge cell is extracted.
C21_OutOfCoverageFails ==
    mw_pc # "start" /\ ds_u = ds_v /\ OutOfCoverage =>
        /\ mw_ij = <<>>
        /\ mw_df = <<>>
        /\ mw_pc \in {"found", "done"} => mw_error = "ValueError"

-----------------------------------------------------------------------------
(* get_stations *)

\* stations.where(stations['coastline_code'] == coastline_code)
\*         .dropna(how='all'): the rows with the requested coastline code
filter_coastline(stations, coastline_code) ==
    SelectSeq(stations, LAMBDA r : r.coastline_code = coastline_code)

\* stations.loc[indices], indices marking the rows whose lower-cased name
\* is among the lower-cased names
filter_names(stations, names) ==
    SelectSeq(stations,
              LAMBDA r : \E n \in DOMAIN names : lower(r.name) = lower(names[n]))

\* get_stations(zf, dataset_name, coastline_code, names): with names, the
\* selection by name is made on all stations and replaces the selection by
\* coastline code
get_stations(stations, coastline_code, names) ==
    IF names.none
    THEN filter_coastline(stations, coastline_code)
    ELSE filter_names(stations, names.list)

(* Specification SpecStations: get_stations on every bounded filelist *)

\* most stations of filelist.txt
MaxStations == 2

\* coastline codes: 150 (Netherlands) and another one
DutchCoast == 150
CoastlineCodes == {DutchCoast, DutchCoast + 10}

\* the files: station n has id 20 + n, a name and a coastline code
FileLists ==
    UNION {{[n \in 1..len |-> [id |-> 20 + n, name |-> f[n][1], coastline_code |-> f[n][2]]] :
              f \in [1..len -> {"VLISSINGEN", "DELFZIJL"} \X CoastlineCodes]} :
           len \in 1..MaxStations}

NamesArguments ==
    {NoNames,
     [none |-> FALSE, list |-> <<"Vlissingen">>],
     [none |-> FALSE, list |-> <<"delfzijl", "VLISSINGEN">>]}

InitStations ==
    /\ filelist \in FileLists
    /\ gs_args \in [coastline_code : CoastlineCodes, names : NamesArguments]
    /\ selected_stations = NotSelected
    /\ IdleY2D
    /\ IdleFC
    /\ IdleGD
    /\ IdleRLR
    /\ IdleLM
    /\ IdleMW
    /\ IdlePar
    /\ IdleC2N
    /\ IdleArg

\* selected_stations = get_stations(zf, dataset_name, coastline_code, names)
CallGetStations ==
    /\ ~selected_stations.called
    /\ filelist # <<>>
    /\ selected_stations' =
          [called |-> TRUE,
           rows |-> get_stations(filelist, gs_args.coastline_code, gs_args.names)]
    /\ UNCHANGED <<filelist, gs_args, y2d_vars, fc_vars, gd_vars, rlr_vars,
                   lm_vars, mw_vars, procs, c2n_vars, arg_vars>>

NextStations == CallGetStations

SpecStations == InitStations /\ [][NextStations]_vars

\* C24: every station returned has the requested coastline code, with or
\* without the names argument, and with names every station returned has
\* a name that equals one of the names up to case.
C24_FilteredOnCoastline ==
    selected_stations.called =>
        \A k \in DOMAIN selected_stations.rows :
            LET r == selected_stations.rows[k]
            IN  /\ r.coastline_code = gs_args.coastline_code
                /\ ~gs_args.names.none =>
                      \E n \in DOMAIN gs_args.names.list :
                          lower(r.name) = lower(gs_args.names.list[n])

-----------------------------------------------------------------------------
(* car2nau called on its own *)

MaxDegrees == 450

\* the floats among the multiples of half a degree, and the floats next to
\* 90 degrees (between 64 and 128 two floats are 2^(7 - Mantissa) apart)
Directions ==
    {d \in {Rat(k, 2) : k \in -(2 * MaxDegrees)..(2 * MaxDegrees)} : fl(d) = d}
    \cup {RAdd(float(90), Rat(k, Pow2(Mantissa - 7))) : k \in -2..2}

InitC2N ==
    /\ carthesian_deg \in Directions
    /\ nautical_deg = NoBearing
    /\ IdleY2D
    /\ IdleFC
    /\ IdleGD
    /\ IdleRLR
    /\ IdleLM
    /\ IdleMW
    /\ IdlePar
    /\ IdleGS
    /\ IdleArg

CallCar2nau ==
    /\ ~nautical_deg.called
    /\ nautical_deg' = [called |-> TRUE, value |-> car2nau(carthesian_deg)]
    /\ UNCHANGED <<carthesian_deg, y2d_vars, fc_vars, gd_vars, rlr_vars,
                   lm_vars, mw_vars, procs, gs_vars, arg_vars>>

NextC2N == CallCar2nau

SpecC2N == InitC2N /\ [][NextC2N]_vars

\* C22: car2nau maps a direction d to (-d + 90) mod 360, and the result is
\* always at least 0 and less than 360.  The value is compared where the sum
\* and the remainder are floats, so that no rounding is involved.
C22_BearingInRange ==
    nautical_deg.called =>
        LET sum == RAdd(RMul(carthesian_deg, float(-1)), float(90))
            exact == mod360(sum)
        IN  /\ ~RLess(nautical_deg.value, float(0))
            /\ RLess(nautical_deg.value, float(360))
            /\ (fl(sum) = sum /\ fl(exact) = exact)
                   => nautical_deg.value = exact

-----------------------------------------------------------------------------
(* Specification SpecAlpha: get_data with the argument alpha and the global
   name alphas as separate inputs *)

\* get_station_data forwards its argument alphas as alpha (None when the
\* caller passes nothing); the global alphas is whatever the session holds
Dictionaries == {AlphasOf(a) : a \in Angles}

InitAlpha ==
    /\ dataset \in Datasets
    /\ station = [id |-> 20, name |-> "VLISSINGEN"]
    /\ zf \in [data : SeqsOf(RawRows(dataset), 1, MaxRows), rlr_info : RlrInfos(dataset)]
    /\ alphas \in {Undefined} \cup Dictionaries
    /\ \/ wind_df = NoWind /\ alpha_passed \in {None} \cup Dictionaries
       \/ /\ wind_df \in {[none |-> FALSE, rows |-> w] : w \in FitWindSeries}
          /\ alpha_passed \in Dictionaries
    /\ df = <<>>
    /\ merged = <<>>
    /\ pc = "start"
    /\ error = "none"
    /\ IdleY2D
    /\ IdleFC
    /\ IdleRLR
    /\ IdleLM
    /\ IdleMW
    /\ IdlePar
    /\ IdleGS
    /\ IdleC2N

SpecAlpha == InitAlpha /\ [][Next]_vars

\* C25: the shore angle of the projection is the entry of the station's
\* lower-cased name in the dictionary the caller passed as alpha, and no
\* other variable determines it: a call with a wind series and a dictionary
\* that holds the station does not fail on the angle, and u2main and u2perp
\* are the projections for that entry.
C25_AngleFromArgument ==
    ~wind_df.none /\ lower(station.name) \in DOMAIN alpha_passed =>
        /\ error \notin {"NameError", "KeyError"}
        /\ pc \in {"projected", "merged", "done"} =>
              wind_df.rows = project(wind_df.rows, alpha_passed[lower(station.name)])

StationColumns == {"year", "height", "station", "t"}

\* C26: without a wind series get_data never reads the shore angle, so it
\* does not matter that alpha is None (or that no dictionary exists): the
\* call fails only where the data file itself cannot be read, and otherwise
\* returns one row per station row with the station columns only.
C26_NoWindNeedsNoAngle ==
    wind_df.none =>
        /\ pc \notin {"projected", "merged"}
        /\ merged = <<>>
        /\ pc = "failed" =>
              \/ typetag(dataset) = "rlr" /\ ~get_rlr2nap(zf.rlr_info).ok
              \/ ~year2date(Column(zf.data, "year")).ok
        /\ pc = "done" =>
              /\ Returned = df
              /\ Len(df) = Len(zf.data)
              /\ \A k \in DOMAIN df :
                    /\ DOMAIN df[k] = StationColumns
                    /\ df[k].year = zf.data[k].year

\* a call without wind, with alpha None and no global dictionary, that
\* returned two rows
C26_Witness ==
    /\ wind_df.none
    /\ alpha_passed = None
    /\ alphas = Undefined
    /\ pc = "done"
    /\ Len(df) = 2

-----------------------------------------------------------------------------
(* Specification SpecMonth: monthly water levels at any year fraction, read
   by get_data without wind and then fitted with linear_model *)

\* every year fraction of the first year, the month boundaries included
MonthFileYears == {YearFraction(FirstYear, p) : p \in 0..(Unit - 1)}

InitMonth ==
    /\ dataset \in {"rlr_monthly", "met_monthly"}
    /\ station = [id |-> 20, name |-> "VLISSINGEN"]
    /\ zf \in [data : SeqsOf([year : MonthFileYears, height : {7000}], 1, MaxRows),
                rlr_info : {<< <<Rat(6930, 1000)>> >>}]
    /\ wind_df = NoWind
    /\ alphas = Undefined
    /\ df = <<>>
    /\ merged = <<>>
    /\ pc = "start"
    /\ error = "none"
    /\ fit = NoFit
    /\ lm_df = <<>>
    /\ IdleY2D
    /\ IdleFC
    /\ IdleRLR
    /\ IdleMW
    /\ IdlePar
    /\ IdleGS
    /\ IdleC2N
    /\ IdleArg

NextMonth == ReadCsv \/ SetIndex \/ ReturnLevels \/ LinearModel

SpecMonth == InitMonth /\ [][NextMonth]_vars

\* the months whose indicator linear_model sets in row k
IndicatorsSet(k) ==
    {n \in 1..NumIndicators : IndicatorColumn(n).cells[k] = num(float(1))}

\* C27: in every row, the calendar month of the timestamp year2date gave
\* the row is the month k whose indicator month_k is set, and it is 12
\* exactly when no indicator is set, also for a year fraction that lies
\* exactly on the start of a month.
C27_MonthsAgree ==
    pc = "done" /\ fit.called /\ fit.with_season /\ fit.X # <<>> =>
        \A k \in DOMAIN df :
            IF IndicatorsSet(k) = {}
            THEN df[k].t.month = 12
            ELSE IndicatorsSet(k) = {df[k].t.month}

-----------------------------------------------------------------------------
(* Specification SpecSeq: get_station_data processes the stations one after
   another, in either order, on one wind series *)

\* the call for station s may take a step: no other call is under way and
\* none has failed (an exception ends the loop over the stations)
Turn(s) == \A t \in DOMAIN procs \ {s} : procs[t].pc \in {"start", "done"}

NextSeq ==
    \E s \in DOMAIN ParStations :
        Turn(s) /\ (PLoad(s) \/ PProject(s) \/ PMerge(s) \/ PImpute(s))

SpecSeq == InitPar /\ [][NextSeq]_vars

\* the wind series as make_wind_df returned it: u2main and u2perp not yet set
Fresh(rows) == [k \in DOMAIN rows |-> [rows[k] EXCEPT !.u2main = NaN, !.u2perp = NaN]]

\* the merged frame of the call for station s when it is the first call on
\* the wind series
First(s) ==
    impute(merge_left(procs[s].df,
                      wind_to_join(dataset,
                                   project(Fresh(wind_df.rows),
                                           alphas[lower(procs[s].station.name)]))))

\* C28: when the stations are processed one after another, the merged frame
\* of a station is the one it gets as the first station on a fresh wind
\* series, whichever station was processed before it.
C28_SequentialIndependent ==
    \A s \in DOMAIN procs :
        /\ procs[s].pc = "done" => procs[s].merged = First(s)
        /\ procs[s].pc = "merged" =>
              procs[s].merged =
                 merge_left(procs[s].df,
                            wind_to_join(dataset,
                                         project(Fresh(wind_df.rows),
                                                 alphas[lower(procs[s].station.name)])))

\* both stations processed, and their frames differ in the projection of a
\* wind sample
C28_Witness ==
    /\ \A s \in DOMAIN procs : procs[s].pc = "done"
    /\ HasSample(procs[1].merged[1])
    /\ procs[1].merged[1].t = procs[2].merged[1].t
    /\ procs[1].merged[1].u2main # procs[2].merged[1].u2main

=============================================================================
